---- MODULE Spec2Model ----
(***************************************************************************)
(* Session lifecycle and real-time streaming layer of The Note frontend:   *)
(* SessionProvider (context/SessionContext.tsx), the api client it calls   *)
(* (api/client.ts) and the live capture hook (hooks/useLiveAudioCapture).  *)
(*                                                                         *)
(* Execution is single threaded: every action below is one callback or one *)
(* synchronous run of a handler up to its next await.                      *)
(***************************************************************************)
EXTENDS Naturals, Sequences, FiniteSets

(* ----------------------------- bounds ---------------------------------- *)
\* session ids the remote service can hand out; SpecEnsure creates up to this
\* many in one run, the other specifications create one
MaxSessions == 2
\* WebSocket objects constructed in one run
MaxSockets == 3
\* reconnect timers armed in one run
MaxTimers == 2
\* malformed stream messages delivered in one run
MaxBad == 1
\* closeSession calls for one session awaiting their response at the same time
MaxClosing == 1
\* mounts of the AudioPipeline route in one run
MaxMounts == 2
\* microphone requests (pending or granted) in one run
MaxGraphs == 2
\* SpecCapture: WebSocket objects constructed in one run
CapSockets == 2
\* SpecEnsure: WebSocket objects constructed in one run
EnsSockets == 3
\* api.submitAudio requests awaiting their response at the same time
MaxInflight == 2
\* SpecFeed: WebSocket objects, reconnect timers and well-formed messages in
\* one run
FeedSockets == 2
FeedTimers == 1
MaxFeedMsgs == 102
\* SpecRefeed: well-formed messages delivered before the session is closed
EarlyMsgs == 1
\* SpecCopy: the audio subsystem writes blocks of samples 0..MaxSample
MaxSample == 1
\* SpecTelemetry: GET /telemetry requests in one run, and the largest value of
\* a metric
MaxPolls == 4
MaxMetric == 2
\* SpecVisualizer: WebSocket objects ConsciousnessVisualizer constructs in
\* one run
MaxVizSockets == 3
\* SpecChat: SpeechRecognition objects VoiceChat constructs in one run
MaxRecognitions == 4
\* SpecUrl: characters in the path given to resolveWebSocketUrl
MaxPathLen == 3

(* ------------------------- program constants --------------------------- *)
\* slice(0, 100) in socket.onmessage
FeedCap == 100
\* context.createScriptProcessor(4096, 1, 1)
BlockSize == 4096
\* new AudioContext({ sampleRate: 22_050 })
CaptureRate == 22050
\* retry: 1 in the default options of the QueryClient
Retry == 1

(* ------------------------------- state --------------------------------- *)
VARIABLES
  session,        \* useState<SessionState | null>
  isLoading,      \* useState(false)
  events,         \* useState<SessionEvent[]>: the feed, newest first
  socketRef,      \* useRef<WebSocket | null>: index into sockets, 0 = null
  reconnectTimer, \* useRef<number | null>: index into timers, 0 = null
  sessionIdRef,   \* useRef<string | null>: a session id, 0 = null
  sockets,        \* every WebSocket constructed so far
  timers,         \* every window.setTimeout armed so far
  creating,       \* ensureSession calls awaiting api.createSession
  closing,        \* closing[s]: closeSession calls awaiting api.closeSession(s)
  created,        \* remote service: number of session ids assigned so far
  nMsgs,          \* remote service: well-formed stream messages sent so far
  nBad,           \* remote service: malformed stream messages sent so far
  mounted,        \* the AudioPipeline route, owner of useLiveAudioCapture, is mounted
  inst,           \* which instance of the hook is (or was last) mounted, 0 = none yet
  isCapturing,    \* useState(false) of the mounted hook instance
  captureRefs,    \* captureRefs[n]: audioContextRef, processorRef, sourceRef and
                  \* streamRef of hook instance n: index into graphs, 0 = null
  graphs,         \* every microphone stream acquired so far, with its audio graph
  acquiring,      \* startCapture calls awaiting getUserMedia
  provided,       \* SessionProvider is mounted
  clearedAt,      \* history: value of nMsgs when the feed was last cleared
  lastData,       \* history: event.data of the latest stream message delivered
  sent,           \* frames the client has sent on event stream sockets
  inflight,       \* api.submitAudio requests awaiting their response
  lastFrame,      \* the AudioFrame the latest resolved pushAudioFrame call of a
                  \* consumer returned (AudioPipeline keeps it in lastFrame)
  torn,           \* history: disconnectStream has run and ensureSession has not been called since
  released,       \* history: what the latest stopCapture run released, in call order
  polling,        \* SessionOverview, owner of useTelemetry, is mounted
  telemetryData,  \* useQuery data: the latest TelemetrySnapshot
  telemetryStatus,\* useQuery status
  telemetryFetch, \* the telemetry query: idle, fetching or waiting to retry
  failureCount,   \* the telemetry query: failed attempts of the current fetch
  nPolls,         \* remote service: GET /telemetry requests received so far
  lastSnapshot,   \* history: body of the latest successful telemetry response
  visualizer,     \* ConsciousnessVisualizer is mounted
  vizSessionId,   \* its sessionId prop
  connectionStatus, \* useState('connecting') of ConsciousnessVisualizer
  wsRef,          \* useRef<WebSocket | null> of ConsciousnessVisualizer: index into vizSockets
  vizSockets,     \* every WebSocket ConsciousnessVisualizer constructed so far
  chat,           \* VoiceChat is mounted
  isListening,    \* useState(false) of VoiceChat
  recognitionRef, \* useRef<SpeechRecognition | null>: index into recognitions, 0 = null
  recognitions,   \* every SpeechRecognition constructed so far
  listenEffect,   \* VoiceChat has rendered a new isListening and its effect has not run yet
  resolved,       \* history: the latest resolveWebSocketUrl call and its result
  settled,        \* history: the latest call of an api operation, the response it
                  \* received and how its promise settled
  closedIds,      \* history: ids for which a closeSession call has resolved
  lastEnsured,    \* history: id returned by the latest ensureSession, 0 after any closeSession step
  ensureRun,      \* history: ensureSession returns since the last closeSession step, capped at 2
  last            \* history: the handler that ran last and what it returned

sessVars == <<session, isLoading, sessionIdRef, creating, closing, created,
              provided, torn, closedIds, lastEnsured, ensureRun>>

streamVars == <<events, socketRef, reconnectTimer, sockets, timers, nMsgs, nBad,
                clearedAt, lastData, sent>>

capVars == <<mounted, inst, isCapturing, captureRefs, graphs, acquiring, released>>

frameVars == <<inflight, lastFrame>>

pollVars == <<polling, telemetryData, telemetryStatus, telemetryFetch,
              failureCount, nPolls, lastSnapshot>>

vizVars == <<visualizer, vizSessionId, connectionStatus, wsRef, vizSockets>>

chatVars == <<chat, isListening, recognitionRef, recognitions, listenEffect>>

\* state outside SessionProvider and useLiveAudioCapture
sideVars == <<pollVars, vizVars, chatVars, resolved, settled>>

vars == <<sessVars, streamVars, capVars, frameVars, sideVars, last>>

SessionIds == 1..MaxSessions

\* session === null
Null == [session_id |-> 0, active |-> FALSE]

\* SessionState, reduced to the fields the controller reads
SessionState == [session_id : SessionIds, active : BOOLEAN]

\* SessionEvent: the session it is for and the service's send counter
\* standing for source, target, payload and created_at
SessionEvent(sid, n) == [session_id |-> sid, seq |-> n]

Did(op, sid) == [op |-> op, sid |-> sid]

Min(a, b) == IF a < b THEN a ELSE b

\* s without its k-th element
Remove(s, k) == SubSeq(s, 1, k - 1) \o SubSeq(s, k + 1, Len(s))

\* JSON objects, their fields given by the typeof of their values ("absent":
\* no such field)
ObjectMessages ==
  [kind : {"object"},
   session_id : {"string", "number"}, source : {"string", "number"},
   target : {"string", "absent"}, created_at : {"string", "number"},
   payload : {"object", "null", "string"}]

\* the fields of a JSON object that are not what SessionEvent declares
Defects(data) ==
  {f \in {"session_id", "source", "target", "created_at"} : data[f] # "string"}
  \cup {f \in {"payload"} : data[f] # "object"}

\* event.data of a stream message: text that does not parse as JSON, the
\* JSON null, a JSON number, string or boolean, or a JSON object with at most
\* one field that is not what SessionEvent declares
RawMessages ==
  [kind : {"unparseable", "null", "scalar"},
   session_id : {"absent"}, source : {"absent"}, target : {"absent"},
   created_at : {"absent"}, payload : {"absent"}]
  \cup
  {data \in ObjectMessages : Cardinality(Defects(data)) <= 1}

\* no stream message has been delivered yet
NoData ==
  [kind |-> "none", session_id |-> "absent", source |-> "absent",
   target |-> "absent", created_at |-> "absent", payload |-> "absent"]

\* new Float32Array(length): length samples, all 0, on an ArrayBuffer of its
\* own of 4 bytes per sample. A Float32Array is given by its length, the
\* byteLength of the ArrayBuffer it is a view of (its .buffer) and data, which
\* stands for the values of its samples
NewFloat32Array(length) == [length |-> length, byteLength |-> 4 * length, data |-> 0]

\* a Float32Array of the given length that is a view onto an ArrayBuffer of
\* byteLength bytes (subarray, or new Float32Array(buffer, byteOffset, length))
Float32View(length, byteLength) == [length |-> length, byteLength |-> byteLength, data |-> 0]

\* (buffer, sampleRate) arguments of pushAudioFrame calls made by consumers
\* of the context: decoded channel data on buffers of their own, and a
\* one-sample view onto a buffer of two samples
FrameInputs ==
  {<<NewFloat32Array(BlockSize), CaptureRate>>, <<NewFloat32Array(11025), 44100>>,
   <<NewFloat32Array(1), 48000>>, <<Float32View(1, 8), 48000>>}

\* no pushAudioFrame call of a consumer has resolved yet
NoFrame ==
  [session_id |-> 0, channels |-> 0, samples |-> 0, sample_rate |-> 0,
   duration |-> 0, waveform_base64 |-> 0, data |-> 0, by |-> "none",
   acked |-> FALSE]

\* useQuery data before the first successful fetch (undefined)
NoSnapshot == [defined |-> FALSE, counter |-> 0, timer |-> 0]

\* TelemetrySnapshot = Record<string, number>: two metric names, 0 standing
\* for a name the snapshot does not have
Snapshots == [defined : {TRUE}, counter : 0..MaxMetric, timer : 0..MaxMetric]

\* resolveWebSocketUrl, or an api operation, has not been called yet
NoCall == [called |-> FALSE]

\* values of VITE_BACKEND_URL (or the default http://127.0.0.1:8000) as
\* written: port 0 stands for no port, query "" for no query
Bases ==
  [scheme : {"http", "https"}, host : {"127.0.0.1", "api.example.com"},
   port : {0, 80, 443, 8000}, path : {<<"/">>, <<"/", "v">>},
   query : {"", "v=1"}]

\* the path argument: strings over three characters, as sequences
Paths == UNION {[1..n -> {"/", "a", "."}] : n \in 0..MaxPathLen}

(* --------------------------- pure helpers ------------------------------ *)
\* (buffer.length / sampleRate) * 1000, kept in hundredths of a millisecond
\* (rounded down)
DurationMs(length, sampleRate) == (length * 100000) \div sampleRate

\* new Uint8Array(buffer.buffer): the bytes of the whole ArrayBuffer the
\* array is a view of
Uint8Bytes(buffer) == buffer.byteLength

\* btoa of a binary string of n characters: 4 characters for every 3 bytes,
\* the last group padded
Btoa(n) == 4 * ((n + 2) \div 3)

CopyBlockNoSet(input) == NewFloat32Array(input.length)

\* const copy = new Float32Array(input.length); copy.set(input)
CopyBlock(input) == [NewFloat32Array(input.length) EXCEPT !.data = input.data]

AudioFrameStereo(sid, buffer, sampleRate, by) ==
  [session_id |-> sid, channels |-> 2, samples |-> buffer.length,
   sample_rate |-> sampleRate, duration |-> DurationMs(buffer.length, sampleRate),
   waveform_base64 |-> Btoa(Uint8Bytes(buffer)), data |-> buffer.data,
   by |-> by, acked |-> FALSE]

\* the AudioFrame built by pushAudioFrame; samples is buffer.length,
\* waveform_base64 the length of the encoded string, data the sample values
\* encoded in it, by stands for who made the call
AudioFrame(sid, buffer, sampleRate, by) ==
  [session_id |-> sid, channels |-> 1, samples |-> buffer.length,
   sample_rate |-> sampleRate, duration |-> DurationMs(buffer.length, sampleRate),
   waveform_base64 |-> Btoa(Uint8Bytes(buffer)), data |-> buffer.data,
   by |-> by, acked |-> FALSE]

\* the port a URL of the given scheme uses when it names none
DefaultPort(scheme) == IF scheme \in {"https", "wss"} THEN 443 ELSE 80

\* new URL(baseUrl): the components of the parsed address; a port equal to
\* the scheme's default is not kept
ParseUrl(base) ==
  [protocol |-> base.scheme, hostname |-> base.host,
   port |-> IF base.port = DefaultPort(base.scheme) THEN 0 ELSE base.port,
   pathname |-> base.path, search |-> base.query]

\* url.protocol = scheme, between http, https, ws and wss: a port equal to
\* the new scheme's default is dropped
SetProtocol(url, scheme) ==
  [url EXCEPT !.protocol = scheme,
              !.port = IF @ = DefaultPort(scheme) THEN 0 ELSE @]

\* the segments of str between its "/" characters ("a/b" gives "a" and "b",
\* "a/" gives "a" and "", "" gives "")
RECURSIVE SplitPath(_)
SplitPath(str) ==
  IF \A k \in DOMAIN str : str[k] # "/"
    THEN <<str>>
    ELSE LET k == CHOOSE j \in DOMAIN str :
                    str[j] = "/" /\ \A i \in 1..(j - 1) : str[i] # "/"
         IN <<SubSeq(str, 1, k - 1)>> \o SplitPath(SubSeq(str, k + 1, Len(str)))

\* the URL path built from the segments seen so far and the next one: ".."
\* removes the last segment, "." adds none, and either of them at the end of
\* the input leaves an empty last segment
RECURSIVE PathState(_, _)
PathState(path, segs) ==
  IF segs = <<>>
    THEN path
    ELSE LET seg == Head(segs)
             atEnd == Len(segs) = 1
             kept == IF seg = <<".", ".">>
                       THEN SubSeq(path, 1, Len(path) - 1)
                       ELSE IF seg = <<".">> THEN path ELSE Append(path, seg)
         IN PathState(IF seg \in {<<".">>, <<".", ".">>} /\ atEnd
                        THEN Append(kept, <<>>)
                        ELSE kept,
                      Tail(segs))

\* "/" before every segment
RECURSIVE JoinPath(_)
JoinPath(segs) ==
  IF segs = <<>> THEN <<>> ELSE <<"/">> \o Head(segs) \o JoinPath(Tail(segs))

\* url.pathname = input, for an input that starts with "/": the input is
\* parsed as a path and the result replaces the path of the URL
SetPathname(url, input) ==
  [url EXCEPT !.pathname = JoinPath(PathState(<<>>, SplitPath(Tail(input))))]

\* path.startsWith("/") ? path : `/${path}`
WithSlash(path) ==
  IF path # <<>> /\ path[1] = "/" THEN path ELSE <<"/">> \o path

ResolveWebSocketUrlKeepsQuery(base, path) ==
  LET url == ParseUrl(base)
      upgraded == SetProtocol(url, IF url.protocol = "https" THEN "wss" ELSE "ws")
  IN SetPathname(upgraded, WithSlash(path))

\* resolveWebSocketUrl(path), base being the address the module was loaded
\* with; the result is url.toString(), kept as its components
ResolveWebSocketUrl(base, path) ==
  LET url == ParseUrl(base)
      upgraded == SetProtocol(url, IF url.protocol = "https" THEN "wss" ELSE "ws")
      routed == SetPathname(upgraded, WithSlash(path))
  IN [routed EXCEPT !.search = ""]

\* the operations of the api object
Operations ==
  {"createSession", "closeSession", "submitAudio", "submitTranscript",
   "analyzeLyrics", "generate", "renderVoice", "storeMemory", "getLatestMemory",
   "getTelemetry", "voiceChat"}

\* responses fetch resolves with: a status and a body that is empty, JSON
\* text, or text that is not JSON
Responses == [status : {200, 201, 204, 400, 404, 500, 503}, body : {"", "json", "text"}]

\* response.ok
Ok(response) == response.status \in 200..299

\* response.json(): the parsed body, or a rejection with a SyntaxError when
\* the body is not JSON
Json(response) ==
  IF response.body = "json"
    THEN [promise |-> "resolved", value |-> "parsed"]
    ELSE [promise |-> "rejected", value |-> "SyntaxError"]

HandleStatusOnly(response) ==
  IF ~Ok(response)
    THEN [promise |-> "rejected", value |-> <<"Request failed with status", response.status>>]
    ELSE IF response.status = 204
      THEN [promise |-> "resolved", value |-> "undefined"]
      ELSE Json(response)

\* handle(response)
Handle(response) ==
  IF ~Ok(response)
    THEN [promise |-> "rejected",
          value |-> IF response.body # ""
                      THEN <<"body", response.body>>
                      ELSE <<"Request failed with status", response.status>>]
    ELSE IF response.status = 204
      THEN [promise |-> "resolved", value |-> "undefined"]
      ELSE Json(response)

\* what the promise of api[op](...) settles with once fetch has resolved with
\* the response
Settle(op, response) ==
  IF op = "getLatestMemory" /\ response.status = 404
    THEN [promise |-> "resolved", value |-> "null"]
    ELSE Handle(response)

\* the AudioFrame the service returns for a submitted frame
Acknowledged(frame) == [frame EXCEPT !.acked = TRUE]

\* readyState of a socket that is connecting or open
Live(sock) == sock.readyState \in {"CONNECTING", "OPEN"}

\* WebSocket.close(): a connecting or open socket starts closing, the close
\* event is delivered later; closing or closed sockets are left alone
CloseSocket(socks, i) ==
  IF Live(socks[i])
    THEN [socks EXCEPT ![i].readyState = "CLOSING"]
    ELSE socks

\* window.clearTimeout: disarms a pending timer, ignores one that has fired
ClearTimeout(tms, t) ==
  IF tms[t].st = "pending"
    THEN [tms EXCEPT ![t].st = "cleared"]
    ELSE tms

\* JSON.parse(event.data) returns instead of throwing
Parses(data) == data.kind # "unparseable"

IsSessionEventNullPayload(value) ==
  /\ value.kind = "object"
  /\ value.session_id = "string"
  /\ value.source = "string"
  /\ value.target = "string"
  /\ value.created_at = "string"
  /\ value.payload \in {"object", "null"}

\* isSessionEvent(value); typeof null is "object", hence the second test on
\* the value and on its payload
IsSessionEvent(value) ==
  /\ value.kind \in {"object", "null"}
  /\ value.kind # "null"
  /\ value.session_id = "string"
  /\ value.source = "string"
  /\ value.target = "string"
  /\ value.created_at = "string"
  /\ value.payload \in {"object", "null"}
  /\ value.payload # "null"

FeedPushNoSlice(prev, ev) == <<ev>> \o prev

FeedPushAtEnd(prev, ev) == SubSeq(prev \o <<ev>>, 1, Min(FeedCap, Len(prev) + 1))

\* setEvents((prev) => [parsed, ...prev].slice(0, 100))
FeedPush(prev, ev) == SubSeq(<<ev>> \o prev, 1, Min(FeedCap, Len(prev) + 1))

\* !socketRef.current || socketRef.current.readyState !== WebSocket.OPEN
StreamDown == socketRef = 0 \/ sockets[socketRef].readyState # "OPEN"

\* connectStream(sessionId): new WebSocket(url); socketRef.current = socket
ConnectStream(sid) ==
  /\ sockets' = Append(sockets, [sid |-> sid, readyState |-> "CONNECTING"])
  /\ socketRef' = Len(sockets) + 1

\* disconnectStream()
DisconnectStream ==
  /\ sockets' = IF socketRef # 0 THEN CloseSocket(sockets, socketRef) ELSE sockets
  /\ socketRef' = 0
  /\ timers' = IF reconnectTimer # 0 THEN ClearTimeout(timers, reconnectTimer) ELSE timers
  /\ reconnectTimer' = 0
  /\ events' = <<>>
  /\ clearedAt' = nMsgs

(* ------------------------------- Init ---------------------------------- *)
\* the application has rendered its first route, /session: SessionOverview is
\* mounted and the first telemetry request is on its way
Init ==
  /\ session = Null
  /\ isLoading = FALSE
  /\ events = <<>>
  /\ socketRef = 0
  /\ reconnectTimer = 0
  /\ sessionIdRef = 0
  /\ sockets = <<>>
  /\ timers = <<>>
  /\ creating = 0
  /\ closing = [s \in SessionIds |-> 0]
  /\ created = 0
  /\ nMsgs = 0
  /\ nBad = 0
  /\ mounted = FALSE
  /\ inst = 0
  /\ isCapturing = FALSE
  /\ captureRefs = [n \in 1..MaxMounts |-> 0]
  /\ graphs = <<>>
  /\ acquiring = <<>>
  /\ released = <<>>
  /\ polling = TRUE
  /\ telemetryData = NoSnapshot
  /\ telemetryStatus = "pending"
  /\ telemetryFetch = "fetching"
  /\ failureCount = 0
  /\ nPolls = 1
  /\ lastSnapshot = NoSnapshot
  /\ visualizer = FALSE
  /\ vizSessionId = 0
  /\ connectionStatus = "connecting"
  /\ wsRef = 0
  /\ vizSockets = <<>>
  /\ chat = FALSE
  /\ isListening = FALSE
  /\ recognitionRef = 0
  /\ recognitions = <<>>
  /\ listenEffect = FALSE
  /\ resolved = NoCall
  /\ settled = NoCall
  /\ provided = TRUE
  /\ clearedAt = 0
  /\ lastData = NoData
  /\ sent = 0
  /\ inflight = <<>>
  /\ lastFrame = NoFrame
  /\ torn = FALSE
  /\ closedIds = {}
  /\ lastEnsured = 0
  /\ ensureRun = 0
  /\ last = Did("init", 0)

(* --------------------------- ensureSession ----------------------------- *)
\* ensureSession, `if (session)` branch: runs to completion synchronously
EnsureSessionExisting ==
  /\ provided
  /\ session # Null
  /\ sessionIdRef' = session.session_id
  /\ IF StreamDown
       THEN ConnectStream(session.session_id)
       ELSE UNCHANGED <<sockets, socketRef>>
  /\ lastEnsured' = session.session_id
  /\ ensureRun' = Min(2, ensureRun + 1)
  /\ torn' = FALSE
  /\ last' = Did("ensureExisting", session.session_id)
  /\ UNCHANGED <<sideVars, session, isLoading, creating, closing, created, provided,
                 closedIds, events, reconnectTimer, timers, nMsgs, nBad,
                 clearedAt, lastData, sent, capVars, frameVars>>

\* ensureSession, no stored session: setIsLoading(true), await api.createSession
EnsureSessionCreate ==
  /\ provided
  /\ session = Null
  /\ isLoading' = TRUE
  /\ creating' = creating + 1
  /\ torn' = FALSE
  /\ last' = Did("ensureCreate", 0)
  /\ UNCHANGED <<sideVars, session, sessionIdRef, closing, created, provided, closedIds,
                 lastEnsured, ensureRun, streamVars, capVars, frameVars>>

CreateSessionOkNoStore ==
  /\ creating > 0
  /\ created' = created + 1
  /\ creating' = creating - 1
  /\ session' = session
  /\ sessionIdRef' = created + 1
  /\ ConnectStream(created + 1)
  /\ isLoading' = FALSE
  /\ lastEnsured' = created + 1
  /\ ensureRun' = Min(2, ensureRun + 1)
  /\ last' = Did("ensureOk", created + 1)
  /\ UNCHANGED <<sideVars, closing, provided, torn, closedIds, events, reconnectTimer,
                 timers, nMsgs, nBad, clearedAt, lastData, sent, capVars,
                 frameVars>>

CreateSessionOkNoRef ==
  /\ creating > 0
  /\ created' = created + 1
  /\ creating' = creating - 1
  /\ session' = [session_id |-> created + 1, active |-> TRUE]
  /\ sessionIdRef' = sessionIdRef
  /\ ConnectStream(created + 1)
  /\ isLoading' = FALSE
  /\ lastEnsured' = created + 1
  /\ ensureRun' = Min(2, ensureRun + 1)
  /\ last' = Did("ensureOk", created + 1)
  /\ UNCHANGED <<sideVars, closing, provided, torn, closedIds, events, reconnectTimer,
                 timers, nMsgs, nBad, clearedAt, lastData, sent, capVars,
                 frameVars>>

\* api.createSession resolves: the service assigns the next id and returns
\* an active SessionState; setSession, sessionIdRef, connectStream, finally
CreateSessionOk ==
  /\ creating > 0
  /\ created' = created + 1
  /\ creating' = creating - 1
  /\ session' = [session_id |-> created + 1, active |-> TRUE]
  /\ sessionIdRef' = created + 1
  /\ ConnectStream(created + 1)
  /\ isLoading' = FALSE
  /\ lastEnsured' = created + 1
  /\ ensureRun' = Min(2, ensureRun + 1)
  /\ last' = Did("ensureOk", created + 1)
  /\ UNCHANGED <<sideVars, closing, provided, torn, closedIds, events, reconnectTimer,
                 timers, nMsgs, nBad, clearedAt, lastData, sent, capVars,
                 frameVars>>

\* api.createSession rejects: toast, rethrow, finally setIsLoading(false)
CreateSessionFail ==
  /\ creating > 0
  /\ creating' = creating - 1
  /\ isLoading' = FALSE
  /\ last' = Did("ensureFail", 0)
  /\ UNCHANGED <<sideVars, session, sessionIdRef, closing, created, provided, torn,
                 closedIds, lastEnsured, ensureRun, streamVars, capVars,
                 frameVars>>

(* ---------------------------- closeSession ----------------------------- *)
\* closeSession, `if (!session) return`
CloseSessionNoop ==
  /\ provided
  /\ session = Null
  /\ lastEnsured' = 0
  /\ ensureRun' = 0
  /\ last' = Did("closeNoop", 0)
  /\ UNCHANGED <<sideVars, session, isLoading, sessionIdRef, creating, closing, created,
                 provided, torn, closedIds, streamVars, capVars, frameVars>>

\* closeSession with a stored session: setIsLoading(true), await api.closeSession
CloseSessionCall ==
  /\ provided
  /\ session # Null
  /\ isLoading' = TRUE
  /\ closing' = [closing EXCEPT ![session.session_id] = @ + 1]
  /\ lastEnsured' = 0
  /\ ensureRun' = 0
  /\ last' = Did("closeCall", session.session_id)
  /\ UNCHANGED <<sideVars, session, sessionIdRef, creating, created, provided, torn,
                 closedIds, streamVars, capVars, frameVars>>

\* api.closeSession(s) resolves with the inactive SessionState: setSession,
\* sessionIdRef.current = null, disconnectStream(), finally
CloseSessionOk(s) ==
  /\ closing[s] > 0
  /\ closing' = [closing EXCEPT ![s] = @ - 1]
  /\ session' = [session_id |-> s, active |-> FALSE]
  /\ sessionIdRef' = 0
  /\ DisconnectStream
  /\ isLoading' = FALSE
  /\ closedIds' = closedIds \cup {s}
  /\ lastEnsured' = 0
  /\ ensureRun' = 0
  /\ torn' = TRUE
  /\ last' = Did("closeOk", s)
  /\ UNCHANGED <<sideVars, creating, created, provided, nMsgs, nBad, lastData, sent,
                 capVars, frameVars>>

CloseSessionFailTeardown(s) ==
  /\ closing[s] > 0
  /\ closing' = [closing EXCEPT ![s] = @ - 1]
  /\ session' = [session_id |-> s, active |-> FALSE]
  /\ sessionIdRef' = 0
  /\ DisconnectStream
  /\ isLoading' = FALSE
  /\ lastEnsured' = 0
  /\ ensureRun' = 0
  /\ torn' = TRUE
  /\ last' = Did("closeFail", s)
  /\ UNCHANGED <<sideVars, creating, created, provided, closedIds, nMsgs, nBad, lastData,
                 sent, capVars, frameVars>>

\* api.closeSession(s) rejects: toast, rethrow, finally setIsLoading(false)
CloseSessionFail(s) ==
  /\ closing[s] > 0
  /\ closing' = [closing EXCEPT ![s] = @ - 1]
  /\ isLoading' = FALSE
  /\ lastEnsured' = 0
  /\ ensureRun' = 0
  /\ last' = Did("closeFail", s)
  /\ UNCHANGED <<sideVars, session, sessionIdRef, creating, created, provided, torn,
                 closedIds, streamVars, capVars, frameVars>>

(* ------------------------------ unmount -------------------------------- *)
\* SessionProvider unmounts with everything it renders: the cleanup of its
\* effect runs disconnectStream(). The refs and the callbacks of sockets,
\* timers and pending requests live on; no handler can be called any more
\* and the values given to state setters from then on are never rendered.
UnmountProvider ==
  /\ provided
  /\ provided' = FALSE
  /\ DisconnectStream
  /\ mounted' = FALSE
  /\ isCapturing' = FALSE
  /\ torn' = TRUE
  /\ last' = Did("providerUnmount", 0)
  /\ UNCHANGED <<sideVars, session, isLoading, sessionIdRef, creating, closing, created,
                 closedIds, lastEnsured, ensureRun, nMsgs, nBad, lastData, sent,
                 inst, captureRefs, graphs, acquiring, released, frameVars>>

(* --------------------------- pushAudioFrame ---------------------------- *)
\* pushAudioFrame of the current render, called by a consumer of the context:
\* throws when session is null, otherwise builds the frame and calls
\* api.submitAudio(session.metadata.session_id, frame)
PushAudioFrame(buffer, sampleRate) ==
  /\ provided
  /\ IF session = Null
       THEN /\ last' = Did("pushThrow", 0)
            /\ inflight' = inflight
       ELSE /\ last' = Did("pushSubmit", session.session_id)
            /\ inflight' = Append(inflight, AudioFrame(session.session_id, buffer,
                                                       sampleRate, "consumer"))
  /\ UNCHANGED <<sideVars, sessVars, streamVars, capVars, lastFrame>>

(* ----------------------------- the stream ------------------------------ *)
\* the connection of socket i is established (no onopen handler is set)
SocketOpen(i) ==
  /\ sockets[i].readyState = "CONNECTING"
  /\ sockets' = [sockets EXCEPT ![i].readyState = "OPEN"]
  /\ last' = Did("socketOpen", sockets[i].sid)
  /\ UNCHANGED <<sideVars, sessVars, events, socketRef, reconnectTimer, timers, nMsgs,
                 nBad, clearedAt, lastData, sent, capVars, frameVars>>

\* socket.onmessage with a payload that parses and passes isSessionEvent
OnMessage(i) ==
  /\ sockets[i].readyState = "OPEN"
  /\ \E data \in RawMessages :
       /\ Parses(data) /\ IsSessionEvent(data)
       /\ lastData' = data
  /\ nMsgs' = nMsgs + 1
  /\ events' = FeedPush(events, SessionEvent(sockets[i].sid, nMsgs + 1))
  /\ last' = Did("message", sockets[i].sid)
  /\ UNCHANGED <<sideVars, sessVars, socketRef, reconnectTimer, sockets, timers, nBad,
                 clearedAt, sent, capVars, frameVars>>

\* socket.onmessage with a payload that does not parse or fails isSessionEvent
OnMalformedMessage(i) ==
  /\ sockets[i].readyState = "OPEN"
  /\ \E data \in RawMessages :
       /\ ~(Parses(data) /\ IsSessionEvent(data))
       /\ lastData' = data
  /\ nBad' = nBad + 1
  /\ last' = Did("malformed", sockets[i].sid)
  /\ UNCHANGED <<sideVars, sessVars, events, socketRef, reconnectTimer, sockets, timers,
                 nMsgs, clearedAt, sent, capVars, frameVars>>

\* sessionIdRef.current === sessionId, in the onclose handler of socket i
StillCurrent(i) == sessionIdRef = sockets[i].sid

OnCloseClearsId(i) ==
  /\ sockets[i].readyState # "CLOSED"
  /\ socketRef' = 0
  /\ sockets' = [sockets EXCEPT ![i].readyState = "CLOSED"]
  /\ sessionIdRef' = 0
  /\ UNCHANGED <<timers, reconnectTimer>>
  /\ last' = Did("socketClose", sockets[i].sid)
  /\ UNCHANGED <<sideVars, session, isLoading, creating, closing, created, provided,
                 torn, closedIds, lastEnsured, ensureRun, events, nMsgs, nBad,
                 clearedAt, lastData, sent, capVars, frameVars>>

\* socket.onclose: the connection of socket i ends (dropped by the network,
\* refused, or after close()); socketRef.current = null and, when the
\* current session id is still this socket's, a reconnect timer is armed
OnClose(i) ==
  /\ sockets[i].readyState # "CLOSED"
  /\ socketRef' = 0
  /\ sockets' = [sockets EXCEPT ![i].readyState = "CLOSED"]
  /\ IF StillCurrent(i)
       THEN /\ timers' = Append(timers, [sid |-> sockets[i].sid, st |-> "pending"])
            /\ reconnectTimer' = Len(timers) + 1
       ELSE UNCHANGED <<timers, reconnectTimer>>
  /\ last' = Did("socketClose", sockets[i].sid)
  /\ UNCHANGED <<sideVars, sessVars, events, nMsgs, nBad, clearedAt, lastData, sent,
                 capVars, frameVars>>

\* socket.onerror of socket i: console.error
OnError(i) ==
  /\ Live(sockets[i])
  /\ last' = Did("socketError", sockets[i].sid)
  /\ UNCHANGED <<sideVars, sessVars, streamVars, capVars, frameVars>>

\* the reconnect timer t fires: () => connectStream(sessionId)
TimerFire(t) ==
  /\ timers[t].st = "pending"
  /\ timers' = [timers EXCEPT ![t].st = "fired"]
  /\ ConnectStream(timers[t].sid)
  /\ last' = Did("timerFire", timers[t].sid)
  /\ UNCHANGED <<sideVars, sessVars, events, reconnectTimer, nMsgs, nBad, clearedAt,
                 lastData, sent, capVars, frameVars>>

\* a heartbeat interval (30 s) passes while socket i is open: connectStream
\* registers no interval and the provider never calls socket.send
HeartbeatInterval(i) ==
  /\ sockets[i].readyState = "OPEN"
  /\ sent' = sent
  /\ last' = Did("interval", sockets[i].sid)
  /\ UNCHANGED <<sideVars, sessVars, events, socketRef, reconnectTimer, sockets, timers,
                 nMsgs, nBad, clearedAt, lastData, capVars, frameVars>>

(* ------------------------- useLiveAudioCapture ------------------------- *)
\* the effect of stopCapture on the graph the refs point to: processor and
\* source disconnected, context closed, media tracks stopped
StoppedGraphs(gs, ref) ==
  IF ref = 0
    THEN gs
    ELSE [gs EXCEPT ![ref].proc = FALSE, ![ref].mic = FALSE]

ReleaseCallsTracksFirst(ref) ==
  IF ref = 0
    THEN <<>>
    ELSE <<"track.stop", "processor.disconnect", "source.disconnect", "context.close">>

\* the calls stopCapture makes on the handles, in the order it makes them;
\* each is skipped by ?. when its ref is null, and the four refs are set and
\* cleared together
ReleaseCalls(ref) ==
  IF ref = 0
    THEN <<>>
    ELSE <<"processor.disconnect", "source.disconnect", "context.close", "track.stop">>

\* stopCapture() of hook instance n, on the graphs gs; setIsCapturing(false)
\* only reaches an instance that is still mounted
StopCaptureOf(n, gs) ==
  /\ graphs' = StoppedGraphs(gs, captureRefs[n])
  /\ released' = ReleaseCalls(captureRefs[n])
  /\ captureRefs' = [captureRefs EXCEPT ![n] = 0]
  /\ isCapturing' = IF mounted /\ n = inst THEN FALSE ELSE isCapturing

\* the router mounts <AudioPipeline />: a fresh hook instance
MountAudioPipeline ==
  /\ provided
  /\ ~mounted
  /\ mounted' = TRUE
  /\ inst' = inst + 1
  /\ isCapturing' = FALSE
  /\ last' = Did("mount", 0)
  /\ UNCHANGED <<sideVars, sessVars, streamVars, captureRefs, graphs, acquiring,
                 released, frameVars>>

\* the router unmounts <AudioPipeline />: the hook registers no cleanup
UnmountAudioPipeline ==
  /\ mounted
  /\ mounted' = FALSE
  /\ isCapturing' = FALSE
  /\ last' = Did("unmount", 0)
  /\ UNCHANGED <<sideVars, sessVars, streamVars, inst, captureRefs, graphs, acquiring,
                 released, frameVars>>

\* startCapture returning early: no session (toast) or already capturing
StartCaptureRejected ==
  /\ mounted
  /\ session = Null \/ isCapturing
  /\ last' = Did(IF session = Null THEN "startNoSession" ELSE "startNoop", 0)
  /\ UNCHANGED <<sideVars, sessVars, streamVars, capVars, frameVars>>

\* startCapture up to `await navigator.mediaDevices.getUserMedia`; the call
\* keeps the session and pushAudioFrame of the render it was made in
StartCaptureCall ==
  /\ mounted
  /\ session # Null
  /\ ~isCapturing
  /\ acquiring' = Append(acquiring, [sess |-> session, inst |-> inst])
  /\ last' = Did("startCall", session.session_id)
  /\ UNCHANGED <<sideVars, sessVars, streamVars, mounted, inst, isCapturing,
                 captureRefs, graphs, released, frameVars>>

\* getUserMedia resolves and the rest of the try block succeeds: the graph
\* is wired, the four refs are set, setIsCapturing(true)
GetUserMediaOk(k) ==
  /\ acquiring' = Remove(acquiring, k)
  /\ graphs' = Append(graphs, [sess |-> acquiring[k].sess, mic |-> TRUE, proc |-> TRUE,
                             input |-> NewFloat32Array(BlockSize)])
  /\ captureRefs' = [captureRefs EXCEPT ![acquiring[k].inst] = Len(graphs) + 1]
  /\ isCapturing' = IF mounted /\ acquiring[k].inst = inst THEN TRUE ELSE isCapturing
  /\ released' = released
  /\ last' = Did("captureStarted", acquiring[k].sess.session_id)
  /\ UNCHANGED <<sideVars, sessVars, streamVars, mounted, inst, frameVars>>

\* getUserMedia rejects: catch, toast, stopCapture()
GetUserMediaFail(k) ==
  /\ acquiring' = Remove(acquiring, k)
  /\ StopCaptureOf(acquiring[k].inst, graphs)
  /\ last' = Did("captureDenied", acquiring[k].sess.session_id)
  /\ UNCHANGED <<sideVars, sessVars, streamVars, mounted, inst, frameVars>>

\* getUserMedia resolves but new AudioContext, createMediaStreamSource or
\* createScriptProcessor throws: the stream is held by a local only, the catch
\* block runs stopCapture() on the refs
CaptureSetupFail(k) ==
  /\ acquiring' = Remove(acquiring, k)
  /\ StopCaptureOf(acquiring[k].inst,
                   Append(graphs, [sess |-> acquiring[k].sess, mic |-> TRUE, proc |-> FALSE,
                                          input |-> NewFloat32Array(BlockSize)]))
  /\ last' = Did("captureSetupFailed", acquiring[k].sess.session_id)
  /\ UNCHANGED <<sideVars, sessVars, streamVars, mounted, inst, frameVars>>

\* stopCapture() called through the mounted hook instance
StopCapture ==
  /\ mounted
  /\ StopCaptureOf(inst, graphs)
  /\ last' = Did("stopCapture", 0)
  /\ UNCHANGED <<sideVars, sessVars, streamVars, mounted, inst, acquiring, frameVars>>

\* useEffect: if (!session?.active && isCapturing) stopCapture()
CaptureEffect ==
  /\ mounted
  /\ ~session.active
  /\ isCapturing
  /\ StopCaptureOf(inst, graphs)
  /\ last' = Did("forceStop", session.session_id)
  /\ UNCHANGED <<sideVars, sessVars, streamVars, mounted, inst, acquiring, frameVars>>

\* the audio subsystem writes the next block of microphone samples, one
\* that differs from the block before, into the input buffer it hands to the
\* processor of graph g
AudioRender(g, x) ==
  /\ graphs[g].proc
  /\ graphs[g].input.data # x
  /\ graphs' = [graphs EXCEPT ![g].input.data = x]
  /\ last' = Did("render", graphs[g].sess.session_id)
  /\ UNCHANGED <<sideVars, sessVars, streamVars, mounted, inst, isCapturing,
                 captureRefs, acquiring, released, frameVars>>

AudioProcessAwaits(g) ==
  /\ graphs[g].proc
  /\ inflight = <<>>
  /\ inflight' = Append(inflight, AudioFrame(graphs[g].sess.session_id,
                                             CopyBlock(graphs[g].input),
                                             CaptureRate, "capture"))
  /\ last' = Did("blockSubmit", graphs[g].sess.session_id)
  /\ UNCHANGED <<sideVars, sessVars, streamVars, capVars, lastFrame>>

\* processor.onaudioprocess of graph g: copies the block and calls the
\* pushAudioFrame captured by startCapture, whose session is never null
AudioProcess(g) ==
  /\ graphs[g].proc
  /\ inflight' = Append(inflight, AudioFrame(graphs[g].sess.session_id,
                                             CopyBlock(graphs[g].input),
                                             CaptureRate, "capture"))
  /\ last' = Did("blockSubmit", graphs[g].sess.session_id)
  /\ UNCHANGED <<sideVars, sessVars, streamVars, capVars, lastFrame>>

(* ------------------------- frame submissions --------------------------- *)
SubmitAudioFailStops(k) ==
  /\ k \in DOMAIN inflight
  /\ inflight' = Remove(inflight, k)
  /\ last' = Did(IF inflight[k].by = "capture" THEN "blockFailed" ELSE "pushFail",
                 inflight[k].session_id)
  /\ IF inflight[k].by = "capture" /\ inst # 0
       THEN StopCaptureOf(inst, graphs)
       ELSE UNCHANGED <<isCapturing, captureRefs, graphs, released>>
  /\ UNCHANGED <<sideVars, sessVars, streamVars, mounted, inst, acquiring, lastFrame>>

\* api.submitAudio rejects (network error or non-2xx response): the promise
\* of pushAudioFrame rejects; the capture callback catches it (console.error
\* and toast), a consumer handles it itself
SubmitAudioFail(k) ==
  /\ k \in DOMAIN inflight
  /\ inflight' = Remove(inflight, k)
  /\ last' = Did(IF inflight[k].by = "capture" THEN "blockFailed" ELSE "pushFail",
                 inflight[k].session_id)
  /\ UNCHANGED <<sideVars, sessVars, streamVars, capVars, lastFrame>>

SubmitAudioOkEcho(k) ==
  /\ k \in DOMAIN inflight
  /\ inflight' = Remove(inflight, k)
  /\ last' = Did(IF inflight[k].by = "capture" THEN "blockAcked" ELSE "pushAck",
                 inflight[k].session_id)
  /\ lastFrame' = IF inflight[k].by = "consumer" THEN inflight[k] ELSE lastFrame
  /\ UNCHANGED <<sideVars, sessVars, streamVars, capVars>>

\* api.submitAudio resolves with the AudioFrame of the response body, which
\* pushAudioFrame returns; the capture callback drops it
SubmitAudioOk(k) ==
  /\ k \in DOMAIN inflight
  /\ inflight' = Remove(inflight, k)
  /\ last' = Did(IF inflight[k].by = "capture" THEN "blockAcked" ELSE "pushAck",
                 inflight[k].session_id)
  /\ lastFrame' = IF inflight[k].by = "consumer"
                    THEN Acknowledged(inflight[k])
                    ELSE lastFrame
  /\ UNCHANGED <<sideVars, sessVars, streamVars, capVars>>

(* ------------------------ resolveWebSocketUrl -------------------------- *)
\* a call of resolveWebSocketUrl by a module loaded with the address base
ResolveCall(base, path) ==
  /\ resolved' = [called |-> TRUE, base |-> base, path |-> path,
                  url |-> ResolveWebSocketUrl(base, path)]
  /\ last' = Did("resolve", 0)
  /\ UNCHANGED <<sessVars, streamVars, capVars, frameVars, pollVars, vizVars, chatVars,
                 settled>>

(* -------------------------------- api ---------------------------------- *)
\* a call of an api operation whose fetch resolves with the response
ApiCall(op, response) ==
  /\ settled' = [called |-> TRUE, op |-> op, response |-> response,
                 outcome |-> Settle(op, response)]
  /\ last' = Did("api", 0)
  /\ UNCHANGED <<sessVars, streamVars, capVars, frameVars, pollVars, vizVars, chatVars,
                 resolved>>

(* ----------------------- ConsciousnessVisualizer ----------------------- *)
\* everything ConsciousnessVisualizer leaves alone
notVizVars == <<sessVars, streamVars, capVars, frameVars, pollVars, chatVars, resolved,
     settled>>

\* the WebSocket effect: new WebSocket(`${backendUrl}/consciousness/stream/
\* ${sessionId}`), wsRef.current = ws, handlers and ping interval set
OpenVisualizerStream(socks, sid) ==
  /\ vizSockets' = Append(socks, [sid |-> sid, readyState |-> "CONNECTING"])
  /\ wsRef' = Len(socks) + 1

\* <ConsciousnessVisualizer sessionId={sid} /> mounts: fresh state, then the
\* effect
VisualizerMount(sid) ==
  /\ ~visualizer
  /\ visualizer' = TRUE
  /\ vizSessionId' = sid
  /\ connectionStatus' = "connecting"
  /\ OpenVisualizerStream(vizSockets, sid)
  /\ last' = Did("vizMount", sid)
  /\ UNCHANGED notVizVars

\* the component unmounts: the cleanup clears the ping interval and closes
\* the socket of its effect
VisualizerUnmount ==
  /\ visualizer
  /\ visualizer' = FALSE
  /\ vizSockets' = CloseSocket(vizSockets, wsRef)
  /\ last' = Did("vizUnmount", vizSessionId)
  /\ UNCHANGED <<notVizVars, vizSessionId, connectionStatus, wsRef>>

\* the sessionId prop changes: cleanup of the previous effect, then the
\* effect again; connectionStatus is state and keeps its value
VisualizerRetarget(sid) ==
  /\ visualizer
  /\ sid # vizSessionId
  /\ vizSessionId' = sid
  /\ OpenVisualizerStream(CloseSocket(vizSockets, wsRef), sid)
  /\ last' = Did("vizRetarget", sid)
  /\ UNCHANGED <<notVizVars, visualizer, connectionStatus>>

\* ws.onopen of socket i; a state setter reaches a mounted component only
VizOnOpen(i) ==
  /\ vizSockets[i].readyState = "CONNECTING"
  /\ vizSockets' = [vizSockets EXCEPT ![i].readyState = "OPEN"]
  /\ connectionStatus' = IF visualizer THEN "connected" ELSE connectionStatus
  /\ last' = Did("vizOpen", vizSockets[i].sid)
  /\ UNCHANGED <<notVizVars, visualizer, vizSessionId, wsRef>>

\* ws.onerror of socket i: the connection has failed, its close event follows
VizOnError(i) ==
  /\ Live(vizSockets[i])
  /\ vizSockets' = [vizSockets EXCEPT ![i].readyState = "CLOSING"]
  /\ connectionStatus' = IF visualizer THEN "disconnected" ELSE connectionStatus
  /\ last' = Did("vizError", vizSockets[i].sid)
  /\ UNCHANGED <<notVizVars, visualizer, vizSessionId, wsRef>>

\* ws.onclose of socket i: setConnectionStatus('disconnected') and nothing
\* else; no socket is constructed and no timer is armed
VizOnClose(i) ==
  /\ vizSockets[i].readyState # "CLOSED"
  /\ vizSockets' = [vizSockets EXCEPT ![i].readyState = "CLOSED"]
  /\ connectionStatus' = IF visualizer THEN "disconnected" ELSE connectionStatus
  /\ last' = Did("vizClose", vizSockets[i].sid)
  /\ UNCHANGED <<notVizVars, visualizer, vizSessionId, wsRef>>

\* the ping interval (30 s) of the current effect: sends 'ping' when its
\* socket is open
VizPing ==
  /\ visualizer
  /\ last' = Did(IF vizSockets[wsRef].readyState = "OPEN" THEN "vizPing" ELSE "vizPingSkipped",
                 vizSessionId)
  /\ UNCHANGED <<notVizVars, vizVars>>

(* ------------------------------ VoiceChat ------------------------------ *)
\* everything VoiceChat leaves alone
notChatVars == <<sessVars, streamVars, capVars, frameVars, pollVars, vizVars, resolved,
     settled>>

\* recognition.abort() and recognition.stop(): a started recognition ends and
\* its end event is delivered later; one that is not started is left alone
EndRecognition(recs, r) ==
  IF recs[r].st = "running" THEN [recs EXCEPT ![r].st = "ending"] ELSE recs

\* the body of the recognition effect: new SpeechRecognition() whose onend
\* closes over the isListening of this render; recognitionRef.current = it
NewRecognition(recs, listening) ==
  /\ recognitions' = Append(recs, [st |-> "idle", listening |-> listening])
  /\ recognitionRef' = Len(recs) + 1

\* the router enters /chat: fresh state, then the effect of the first render
ChatMount ==
  /\ ~chat
  /\ chat' = TRUE
  /\ isListening' = FALSE
  /\ listenEffect' = FALSE
  /\ NewRecognition(recognitions, FALSE)
  /\ last' = Did("chatMount", 0)
  /\ UNCHANGED notChatVars

\* the router leaves /chat: the cleanup aborts recognitionRef.current
ChatUnmount ==
  /\ chat
  /\ chat' = FALSE
  /\ isListening' = FALSE
  /\ listenEffect' = FALSE
  /\ recognitions' = EndRecognition(recognitions, recognitionRef)
  /\ last' = Did("chatUnmount", 0)
  /\ UNCHANGED <<notChatVars, recognitionRef>>

\* toggleListening(): needs a stored session; stops the recognition in the
\* ref when listening, starts it otherwise (start() throws on a recognition
\* that is started, which is caught and leaves isListening as it was)
ToggleListening ==
  /\ chat
  /\ ~listenEffect
  /\ IF session = Null
       THEN /\ last' = Did("toggleNoSession", 0)
            /\ UNCHANGED <<isListening, recognitions, listenEffect>>
       ELSE IF isListening
         THEN /\ recognitions' = EndRecognition(recognitions, recognitionRef)
              /\ isListening' = FALSE
              /\ listenEffect' = TRUE
              /\ last' = Did("listenOff", session.session_id)
         ELSE IF recognitions[recognitionRef].st = "idle"
           THEN /\ recognitions' = [recognitions EXCEPT ![recognitionRef].st = "running"]
                /\ isListening' = TRUE
                /\ listenEffect' = TRUE
                /\ last' = Did("listenOn", session.session_id)
           ELSE /\ last' = Did("listenFailed", session.session_id)
                /\ UNCHANGED <<isListening, recognitions, listenEffect>>
  /\ UNCHANGED <<notChatVars, chat, recognitionRef>>

\* the recognition effect after isListening has changed (deps [isListening]):
\* the cleanup of the previous run aborts recognitionRef.current, then the
\* body constructs a new recognition and does not start it
ListeningEffect ==
  /\ chat
  /\ listenEffect
  /\ listenEffect' = FALSE
  /\ NewRecognition(EndRecognition(recognitions, recognitionRef), isListening)
  /\ last' = Did("listenEffect", 0)
  /\ UNCHANGED <<notChatVars, chat, isListening>>

\* a started recognition ends by itself (silence, network or service error)
RecognitionEnds(r) ==
  /\ recognitions[r].st = "running"
  /\ recognitions' = [recognitions EXCEPT ![r].st = "ending"]
  /\ last' = Did("recognitionEnds", 0)
  /\ UNCHANGED <<notChatVars, chat, isListening, recognitionRef, listenEffect>>

\* recognition.onend of recognition r: start() again when the isListening
\* of the render that constructed it was true
RecognitionOnEnd(r) ==
  /\ recognitions[r].st = "ending"
  /\ recognitions' = [recognitions EXCEPT
                        ![r].st = IF recognitions[r].listening THEN "running" ELSE "idle"]
  /\ last' = Did(IF recognitions[r].listening THEN "recognitionRestarted"
                                              ELSE "recognitionEnded", 0)
  /\ UNCHANGED <<notChatVars, chat, isListening, recognitionRef, listenEffect>>

(* ---------------------------- useTelemetry ----------------------------- *)
\* everything the telemetry query leaves alone
notPollVars == <<sessVars, streamVars, capVars, frameVars, vizVars, chatVars, resolved,
     settled>>

SetDataMerge(prev, snap) ==
  [defined |-> TRUE,
   counter |-> IF snap.counter # 0 THEN snap.counter ELSE prev.counter,
   timer |-> IF snap.timer # 0 THEN snap.timer ELSE prev.timer]

\* the query stores the value queryFn resolved with as its data
SetData(prev, snap) == snap

\* the query starts a fetch: queryFn calls api.getTelemetry(), GET /telemetry
StartFetch ==
  /\ telemetryFetch' = "fetching"
  /\ failureCount' = 0
  /\ nPolls' = nPolls + 1

TelemetryIntervalWhileActive ==
  /\ polling
  /\ session.active
  /\ CASE telemetryFetch = "idle" -> StartFetch
       [] telemetryFetch = "retrying" ->
            /\ telemetryFetch' = "fetching"
            /\ nPolls' = nPolls + 1
            /\ failureCount' = failureCount
       [] OTHER -> UNCHANGED <<telemetryFetch, failureCount, nPolls>>
  /\ last' = Did("telemetryInterval", 0)
  /\ UNCHANGED <<notPollVars, polling, telemetryData, telemetryStatus, lastSnapshot>>

\* refetchInterval: 5000 of the mounted observer: the query is fetched again;
\* a fetch in progress is shared, a retry that is waiting is made at once.
\* The hook takes no argument and reads no session state.
TelemetryInterval ==
  /\ polling
  /\ CASE telemetryFetch = "idle" -> StartFetch
       [] telemetryFetch = "retrying" ->
            /\ telemetryFetch' = "fetching"
            /\ nPolls' = nPolls + 1
            /\ failureCount' = failureCount
       [] OTHER -> UNCHANGED <<telemetryFetch, failureCount, nPolls>>
  /\ last' = Did("telemetryInterval", 0)
  /\ UNCHANGED <<notPollVars, polling, telemetryData, telemetryStatus, lastSnapshot>>

\* api.getTelemetry resolves with the body of a 2xx response
TelemetryOk ==
  /\ telemetryFetch = "fetching"
  /\ \E snap \in Snapshots :
       /\ telemetryData' = SetData(telemetryData, snap)
       /\ lastSnapshot' = snap
  /\ telemetryStatus' = "success"
  /\ telemetryFetch' = "idle"
  /\ failureCount' = 0
  /\ last' = Did("telemetryOk", 0)
  /\ UNCHANGED <<notPollVars, polling, nPolls>>

\* api.getTelemetry rejects (network error, or handle() throws on a non-2xx
\* response): the query retries once after its retry delay, then gives the
\* error to the result object of useQuery, which keeps the data it had;
\* useTelemetry sets no option that would throw it to the component
TelemetryFail ==
  /\ telemetryFetch = "fetching"
  /\ failureCount' = failureCount + 1
  /\ IF failureCount < Retry
       THEN /\ telemetryFetch' = "retrying"
            /\ telemetryStatus' = telemetryStatus
       ELSE /\ telemetryFetch' = "idle"
            /\ telemetryStatus' = "error"
  /\ last' = Did("telemetryFail", 0)
  /\ UNCHANGED <<notPollVars, polling, telemetryData, nPolls, lastSnapshot>>

\* the retry delay of a failed attempt has passed
TelemetryRetry ==
  /\ telemetryFetch = "retrying"
  /\ telemetryFetch' = "fetching"
  /\ nPolls' = nPolls + 1
  /\ last' = Did("telemetryRetry", 0)
  /\ UNCHANGED <<notPollVars, polling, telemetryData, telemetryStatus,
                 failureCount, lastSnapshot>>

\* the router leaves /session: the observer goes and with it its interval
OverviewUnmount ==
  /\ polling
  /\ polling' = FALSE
  /\ last' = Did("overviewUnmount", 0)
  /\ UNCHANGED <<notPollVars, telemetryData, telemetryStatus, telemetryFetch,
                 failureCount, nPolls, lastSnapshot>>

\* the router returns to /session: a new observer; the query is fetched on
\* mount when it has no data or its data is older than staleTime
OverviewMount ==
  /\ ~polling
  /\ polling' = TRUE
  /\ \E stale \in BOOLEAN :
       IF telemetryFetch = "idle" /\ (stale \/ ~telemetryData.defined)
         THEN StartFetch
         ELSE UNCHANGED <<telemetryFetch, failureCount, nPolls>>
  /\ last' = Did("overviewMount", 0)
  /\ UNCHANGED <<notPollVars, telemetryData, telemetryStatus, lastSnapshot>>

(* ------------------------------- Next ---------------------------------- *)
\* session controller, its unmount and the connections of the event stream;
\* one session is created per run
Next ==
  \/ (StreamDown => Len(sockets) < MaxSockets) /\ EnsureSessionExisting
  \/ created = 0 /\ creating = 0 /\ EnsureSessionCreate
  \/ Len(sockets) < MaxSockets /\ CreateSessionOk
  \/ CreateSessionFail
  \/ CloseSessionNoop
  \/ session # Null /\ closing[session.session_id] < MaxClosing /\ CloseSessionCall
  \/ \E s \in SessionIds : CloseSessionOk(s)
  \/ \E s \in SessionIds : CloseSessionFail(s)
  \/ \E i \in DOMAIN sockets : SocketOpen(i)
  \/ \E i \in DOMAIN sockets : (StillCurrent(i) => Len(timers) < MaxTimers) /\ OnClose(i)
  \/ \E t \in DOMAIN timers : Len(sockets) < MaxSockets /\ TimerFire(t)
  \/ \E i \in DOMAIN sockets : HeartbeatInterval(i)
  \/ UnmountProvider

Spec == Init /\ [][Next]_vars

\* session controller and the capture pipeline (stream connections are
\* constructed and closed by the controller, their events are left to Spec);
\* one session is created per run and one block is in flight at a time
NextCapture ==
  \/ (StreamDown => Len(sockets) < CapSockets) /\ EnsureSessionExisting
  \/ created = 0 /\ creating = 0 /\ EnsureSessionCreate
  \/ Len(sockets) < CapSockets /\ CreateSessionOk
  \/ CreateSessionFail
  \/ session # Null /\ closing[session.session_id] < MaxClosing /\ CloseSessionCall
  \/ \E s \in SessionIds : CloseSessionOk(s)
  \/ \E s \in SessionIds : CloseSessionFail(s)
  \/ inst < MaxMounts /\ MountAudioPipeline
  \/ UnmountAudioPipeline
  \/ StartCaptureRejected
  \/ Len(graphs) + Len(acquiring) < MaxGraphs /\ StartCaptureCall
  \/ \E k \in DOMAIN acquiring : GetUserMediaOk(k)
  \/ \E k \in DOMAIN acquiring : GetUserMediaFail(k)
  \/ \E k \in DOMAIN acquiring : CaptureSetupFail(k)
  \/ StopCapture
  \/ CaptureEffect
  \/ \E g \in DOMAIN graphs : inflight = <<>> /\ AudioProcess(g)
  \/ \E k \in DOMAIN inflight : SubmitAudioOk(k)
  \/ \E k \in DOMAIN inflight : SubmitAudioFail(k)

SpecCapture == Init /\ [][NextCapture]_vars

\* React runs a pending effect after the render that made it due, the audio
\* subsystem calls a connected processor for every block, and a request is
\* answered or fails
SpecCaptureFair ==
  /\ SpecCapture
  /\ WF_vars(CaptureEffect)
  /\ WF_vars(\E g \in DOMAIN graphs : inflight = <<>> /\ AudioProcess(g))
  /\ WF_vars(\E k \in DOMAIN inflight : SubmitAudioOk(k) \/ SubmitAudioFail(k))

\* one session, one mount of the capture pipeline and the blocks it submits
NextBlocks ==
  \/ created = 0 /\ creating = 0 /\ EnsureSessionCreate
  \/ CreateSessionOk
  \/ session # Null /\ closing[session.session_id] < MaxClosing /\ CloseSessionCall
  \/ \E s \in SessionIds : CloseSessionOk(s)
  \/ inst = 0 /\ MountAudioPipeline
  \/ Len(graphs) + Len(acquiring) < MaxGraphs /\ StartCaptureCall
  \/ \E k \in DOMAIN acquiring : GetUserMediaOk(k)
  \/ StopCapture
  \/ CaptureEffect
  \/ \E g \in DOMAIN graphs : Len(inflight) < MaxInflight /\ AudioProcess(g)
  \/ \E k \in DOMAIN inflight : SubmitAudioOk(k)
  \/ \E k \in DOMAIN inflight : SubmitAudioFail(k)

SpecBlocks == Init /\ [][NextBlocks]_vars

\* one session and the starts and stops of the capture pipeline, without the
\* blocks it submits
NextStop ==
  \/ created = 0 /\ creating = 0 /\ EnsureSessionCreate
  \/ CreateSessionOk
  \/ session # Null /\ closing[session.session_id] < MaxClosing /\ CloseSessionCall
  \/ \E s \in SessionIds : CloseSessionOk(s)
  \/ inst < MaxMounts /\ MountAudioPipeline
  \/ UnmountAudioPipeline
  \/ StartCaptureRejected
  \/ Len(graphs) + Len(acquiring) < MaxGraphs /\ StartCaptureCall
  \/ \E k \in DOMAIN acquiring : GetUserMediaOk(k)
  \/ \E k \in DOMAIN acquiring : GetUserMediaFail(k)
  \/ \E k \in DOMAIN acquiring : CaptureSetupFail(k)
  \/ StopCapture
  \/ CaptureEffect

SpecStop == Init /\ [][NextStop]_vars

\* one session, one mount of the capture pipeline and the blocks the audio
\* subsystem hands to its captures
NextCopy ==
  \/ created = 0 /\ creating = 0 /\ EnsureSessionCreate
  \/ CreateSessionOk
  \/ inst = 0 /\ MountAudioPipeline
  \/ Len(graphs) + Len(acquiring) < MaxGraphs /\ StartCaptureCall
  \/ \E k \in DOMAIN acquiring : GetUserMediaOk(k)
  \/ StopCapture
  \/ \E g \in DOMAIN graphs, x \in 0..MaxSample : AudioRender(g, x)
  \/ \E g \in DOMAIN graphs : Len(inflight) < MaxInflight /\ AudioProcess(g)
  \/ \E k \in DOMAIN inflight : SubmitAudioOk(k)
  \/ \E k \in DOMAIN inflight : SubmitAudioFail(k)

SpecCopy == Init /\ [][NextCopy]_vars

\* session controller and the frames consumers submit through pushAudioFrame;
\* one session is created per run
NextFrames ==
  \/ created = 0 /\ creating = 0 /\ EnsureSessionCreate
  \/ CreateSessionOk
  \/ CreateSessionFail
  \/ session # Null /\ closing[session.session_id] < MaxClosing /\ CloseSessionCall
  \/ \E s \in SessionIds : CloseSessionOk(s)
  \/ \E s \in SessionIds : CloseSessionFail(s)
  \/ \E in \in FrameInputs : Len(inflight) < MaxInflight /\ PushAudioFrame(in[1], in[2])
  \/ \E k \in DOMAIN inflight : SubmitAudioOk(k)
  \/ \E k \in DOMAIN inflight : SubmitAudioFail(k)

SpecFrames == Init /\ [][NextFrames]_vars

\* session controller with overlapping and repeated ensureSession calls; the
\* stream connections open and stay up
NextEnsure ==
  \/ (StreamDown => Len(sockets) < EnsSockets) /\ EnsureSessionExisting
  \/ created + creating < MaxSessions /\ EnsureSessionCreate
  \/ Len(sockets) < EnsSockets /\ CreateSessionOk
  \/ CreateSessionFail
  \/ CloseSessionNoop
  \/ session # Null /\ closing[session.session_id] < MaxClosing /\ CloseSessionCall
  \/ \E s \in SessionIds : CloseSessionOk(s)
  \/ \E s \in SessionIds : CloseSessionFail(s)
  \/ \E i \in DOMAIN sockets : SocketOpen(i)

SpecEnsure == Init /\ [][NextEnsure]_vars

\* one session, its event stream and a long run of messages
NextFeed ==
  \/ created = 0 /\ creating = 0 /\ EnsureSessionCreate
  \/ Len(sockets) < FeedSockets /\ CreateSessionOk
  \/ session # Null /\ closing[session.session_id] < MaxClosing /\ CloseSessionCall
  \/ \E s \in SessionIds : CloseSessionOk(s)
  \/ \E i \in DOMAIN sockets : SocketOpen(i)
  \/ \E i \in DOMAIN sockets : nMsgs < MaxFeedMsgs /\ OnMessage(i)
  \/ \E i \in DOMAIN sockets : nBad < MaxBad /\ OnMalformedMessage(i)
  \/ \E i \in DOMAIN sockets : (StillCurrent(i) => Len(timers) < FeedTimers) /\ OnClose(i)
  \/ \E t \in DOMAIN timers : Len(sockets) < FeedSockets /\ TimerFire(t)

SpecFeed == Init /\ [][NextFeed]_vars

\* one session that is closed within its first messages and resumed by
\* ensureSession, then a long run of well-formed messages on connections
\* that stay up
NextRefeed ==
  \/ created = 0 /\ creating = 0 /\ EnsureSessionCreate
  \/ Len(sockets) < FeedSockets /\ CreateSessionOk
  \/ (StreamDown => Len(sockets) < FeedSockets) /\ EnsureSessionExisting
  \/ /\ session # Null
     /\ closing[session.session_id] < MaxClosing
     /\ nMsgs <= EarlyMsgs
     /\ CloseSessionCall
  \/ \E s \in SessionIds : nMsgs <= EarlyMsgs /\ CloseSessionOk(s)
  \/ \E i \in DOMAIN sockets : SocketOpen(i)
  \/ \E i \in DOMAIN sockets : nMsgs < MaxFeedMsgs /\ OnMessage(i)

SpecRefeed == Init /\ [][NextRefeed]_vars

\* the telemetry query next to a session that is created and closed
NextTelemetry ==
  \/ created = 0 /\ creating = 0 /\ EnsureSessionCreate
  \/ CreateSessionOk
  \/ session # Null /\ closing[session.session_id] < MaxClosing /\ CloseSessionCall
  \/ \E s \in SessionIds : CloseSessionOk(s)
  \/ (telemetryFetch # "fetching" => nPolls < MaxPolls) /\ TelemetryInterval
  \/ TelemetryOk
  \/ TelemetryFail
  \/ nPolls < MaxPolls /\ TelemetryRetry
  \/ OverviewUnmount
  \/ nPolls < MaxPolls /\ OverviewMount

SpecTelemetry == Init /\ [][NextTelemetry]_vars

\* one call of resolveWebSocketUrl per run
NextUrl == \E base \in Bases, path \in Paths : ~resolved.called /\ ResolveCall(base, path)

SpecUrl == Init /\ [][NextUrl]_vars

\* one call of an api operation per run
NextApi ==
  \E op \in Operations, response \in Responses : ~settled.called /\ ApiCall(op, response)

SpecApi == Init /\ [][NextApi]_vars

\* ConsciousnessVisualizer and its connections
NextVisualizer ==
  \/ \E sid \in SessionIds : Len(vizSockets) < MaxVizSockets /\ VisualizerMount(sid)
  \/ VisualizerUnmount
  \/ \E sid \in SessionIds : Len(vizSockets) < MaxVizSockets /\ VisualizerRetarget(sid)
  \/ \E i \in DOMAIN vizSockets : VizOnOpen(i)
  \/ \E i \in DOMAIN vizSockets : VizOnError(i)
  \/ \E i \in DOMAIN vizSockets : VizOnClose(i)
  \/ VizPing

\* a connection attempt ends in an open or a failed connection, a failed or
\* closing connection ends with its close event, and the interval keeps firing
SpecVisualizer ==
  /\ Init
  /\ [][NextVisualizer]_vars
  /\ WF_vars(\E i \in DOMAIN vizSockets :
                vizSockets[i].readyState = "CONNECTING" /\ (VizOnOpen(i) \/ VizOnError(i)))
  /\ WF_vars(\E i \in DOMAIN vizSockets :
                vizSockets[i].readyState = "CLOSING" /\ VizOnClose(i))
  /\ WF_vars(VizPing)

\* VoiceChat next to a session that is created and closed
NextChat ==
  \/ created = 0 /\ creating = 0 /\ EnsureSessionCreate
  \/ CreateSessionOk
  \/ session # Null /\ closing[session.session_id] < MaxClosing /\ CloseSessionCall
  \/ \E s \in SessionIds : CloseSessionOk(s)
  \/ Len(recognitions) < MaxRecognitions /\ ChatMount
  \/ ChatUnmount
  \/ Len(recognitions) < MaxRecognitions /\ ToggleListening
  \/ ListeningEffect
  \/ \E r \in DOMAIN recognitions : RecognitionEnds(r)
  \/ \E r \in DOMAIN recognitions : RecognitionOnEnd(r)

SpecChat == Init /\ [][NextChat]_vars

\* one session, created and closed, next to everything that runs beside the
\* controller: the stream handlers and the reconnect timer, frame
\* submissions one at a time, one capture, and the telemetry query up to its
\* first snapshot
NextWriters ==
  \/ created = 0 /\ creating = 0 /\ EnsureSessionCreate
  \/ Len(sockets) < FeedSockets /\ CreateSessionOk
  \/ session # Null /\ closing[session.session_id] < MaxClosing /\ CloseSessionCall
  \/ \E s \in SessionIds : CloseSessionOk(s)
  \/ \E i \in DOMAIN sockets : SocketOpen(i)
  \/ \E i \in DOMAIN sockets : nMsgs < EarlyMsgs /\ OnMessage(i)
  \/ \E i \in DOMAIN sockets : OnError(i)
  \/ \E i \in DOMAIN sockets : (StillCurrent(i) => Len(timers) < FeedTimers) /\ OnClose(i)
  \/ \E t \in DOMAIN timers : Len(sockets) < FeedSockets /\ TimerFire(t)
  \/ inflight = <<>> /\ PushAudioFrame(NewFloat32Array(BlockSize), CaptureRate)
  \/ \E k \in DOMAIN inflight : SubmitAudioOk(k)
  \/ \E k \in DOMAIN inflight : SubmitAudioFail(k)
  \/ inst = 0 /\ MountAudioPipeline
  \/ graphs = <<>> /\ acquiring = <<>> /\ StartCaptureCall
  \/ \E k \in DOMAIN acquiring : GetUserMediaOk(k)
  \/ \E g \in DOMAIN graphs : inflight = <<>> /\ AudioProcess(g)
  \/ CaptureEffect
  \/ telemetryFetch = "idle" /\ nPolls < MaxPolls /\ TelemetryInterval
  \/ telemetryStatus = "pending" /\ TelemetryOk
  \/ TelemetryFail

SpecWriters == Init /\ [][NextWriters]_vars

(* ------------------------------ properties ----------------------------- *)
\* a microphone stream or processor of graph g is still running
Running(g) == graphs[g].mic \/ graphs[g].proc

\* the force-stop effect of the mounted hook instance is due for graph g
ForceStopDue(g) ==
  mounted /\ isCapturing /\ ~session.active /\ captureRefs[inst] = g

\* some reconnect timer for session s is armed
TimerPending(s) == \E t \in DOMAIN timers : timers[t].sid = s /\ timers[t].st = "pending"

\* some socket for session s is connecting or open
StreamLive(s) == \E i \in DOMAIN sockets : sockets[i].sid = s /\ Live(sockets[i])

\* C1: once closeSession has resolved for a session, no pushAudioFrame call
\* (made through the context or by the capture pipeline) issues a remote
\* frame submission for it: the call throws instead.
C1_NoSubmitAfterClose ==
  last.op \in {"pushSubmit", "blockSubmit"} => last.sid \notin closedIds

\* C2: an ensureSession call made after an earlier ensureSession has
\* returned, with no closeSession call or completion in between, returns the
\* same session_id and issues no remote create-session request.
C2_EnsureIdempotent ==
  [][(lastEnsured # 0 /\ last'.op \in {"ensureExisting", "ensureCreate"})
      => (/\ last'.op = "ensureExisting"
          /\ last'.sid = lastEnsured
          /\ creating' = creating
          /\ created' = created)]_vars

\* C2 witness: a second ensureSession in a row has just returned
C2_Witness ==
  /\ last.op = "ensureExisting"
  /\ ensureRun = 2
  /\ creating = 0
  /\ created = 1

\* C3: when the remote create-session call of an ensureSession call resolves,
\* the stored state is active with a non-empty session_id, the current
\* session id reference equals that id, and the socket reference holds a
\* freshly constructed socket scoped to that id.
C3_CreatedSessionActive ==
  last.op = "ensureOk" =>
    /\ last.sid # 0
    /\ session = [session_id |-> last.sid, active |-> TRUE]
    /\ sessionIdRef = last.sid
    /\ socketRef = Len(sockets)
    /\ socketRef # 0
    /\ sockets[socketRef] = [sid |-> last.sid, readyState |-> "CONNECTING"]

\* C3 witness: a create-session call has just resolved
C3_Witness == last.op = "ensureOk" /\ session.active /\ sessionIdRef = session.session_id

\* C4: once closeSession has resolved for id S, no ensureSession returns S,
\* leaves S as the current session id or leaves a stream for S in the socket
\* reference.
C4_ClosedNeverReactivated ==
  last.op \in {"ensureExisting", "ensureOk"} =>
    /\ last.sid \notin closedIds
    /\ sessionIdRef \notin closedIds
    /\ socketRef # 0 => sockets[socketRef].sid \notin closedIds

\* C5: when the remote close call fails, local teardown has still happened:
\* no socket of the session is connecting or open, no reconnect timer for it
\* is armed, and every capture bound to it is stopped or about to be
\* force-stopped.
C5_TeardownOnCloseFailure ==
  last.op = "closeFail" =>
    /\ ~StreamLive(last.sid)
    /\ ~TimerPending(last.sid)
    /\ \A g \in DOMAIN graphs :
         (graphs[g].sess.session_id = last.sid /\ Running(g)) => ForceStopDue(g)

\* C6: the steps of a failing session operation (the call up to its remote
\* request, and the handling of the rejection) leave the stored SessionState,
\* the current session id and the stream as they were; a failed ensureSession
\* with no session ever created leaves the session absent.
C6_FailureLeavesState ==
  [][(last'.op \in {"ensureCreate", "ensureFail", "closeCall", "closeFail"})
      => (/\ session' = session
          /\ sessionIdRef' = sessionIdRef
          /\ sockets' = sockets
          /\ socketRef' = socketRef
          /\ (last'.op = "ensureFail" /\ created = 0 => session' = Null /\ sockets' = <<>>))]_vars

\* C6 witness: a closeSession call has just failed on an active session
\* whose stream is up
C6_Witness ==
  /\ last.op = "closeFail"
  /\ session = [session_id |-> last.sid, active |-> TRUE]
  /\ socketRef # 0

\* C7: when closeSession has resolved, the teardown for that session id is
\* complete: stored state inactive, current session id cleared, no socket of
\* the session connecting or open, no reconnect timer armed for it, feed
\* empty, and every capture bound to it stopped or about to be force-stopped.
C7_TeardownComplete ==
  last.op = "closeOk" =>
    /\ session = [session_id |-> last.sid, active |-> FALSE]
    /\ sessionIdRef = 0
    /\ socketRef = 0
    /\ ~StreamLive(last.sid)
    /\ reconnectTimer = 0
    /\ ~TimerPending(last.sid)
    /\ events = <<>>
    /\ \A g \in DOMAIN graphs :
         (graphs[g].sess.session_id = last.sid /\ Running(g)) => ForceStopDue(g)

\* C8: a stream that disconnects while its session id is the current one
\* arms a reconnect timer for that id, the timer opens a new socket for the
\* id when it fires, and no reconnect fires for a session that has been
\* closed.
C8_ReconnectOnlyWhileActive ==
  /\ (last.op = "socketClose" /\ sessionIdRef = last.sid) =>
       /\ reconnectTimer # 0
       /\ timers[reconnectTimer] = [sid |-> last.sid, st |-> "pending"]
  /\ last.op = "timerFire" =>
       /\ socketRef # 0
       /\ sockets[socketRef] = [sid |-> last.sid, readyState |-> "CONNECTING"]
       /\ last.sid \notin closedIds

\* C9: every socket opened by a reconnect timer is for the session id that
\* is current when the timer fires.
C9_ReconnectFenced ==
  last.op = "timerFire" => last.sid = sessionIdRef

\* C10: the event feed never holds more than 100 entries.
C10_FeedBounded == Len(events) <= FeedCap

\* C10 witness: the feed is full after more than 100 well-formed messages,
\* a malformed one and a reconnect
C10_Witness ==
  /\ Len(events) = FeedCap
  /\ nMsgs > FeedCap
  /\ nBad > 0
  /\ Len(sockets) > 1

\* C11: the feed is exactly the well-formed events delivered since it was
\* last cleared, at most 100 of them, newest first: position k holds the
\* k-th most recent one.
C11_FeedNewestFirst ==
  /\ Len(events) = Min(FeedCap, nMsgs - clearedAt)
  /\ \A k \in 1..Len(events) : events[k].seq = nMsgs - k + 1

\* C11 witness: the feed was cleared after a first message and more than 100
\* well-formed messages have arrived since
C11_Witness ==
  /\ clearedAt > 0
  /\ nMsgs - clearedAt > FeedCap
  /\ Len(events) = FeedCap

\* a stream message that does not parse, or in which session_id, source,
\* target or created_at is not a string or payload is not a non-null object
Invalid(data) ==
  \/ data.kind = "unparseable"
  \/ data.session_id # "string"
  \/ data.source # "string"
  \/ data.target # "string"
  \/ data.created_at # "string"
  \/ data.payload # "object"

\* C12: a stream message that is not parseable or fails SessionEvent
\* validation is discarded, leaving the feed, the sockets and the session as
\* they were, and every valid message, also after a discarded one, is put at
\* feed position 0.
C12_MalformedDiscarded ==
  [][(last'.op \in {"message", "malformed"}) =>
       IF Invalid(lastData')
         THEN /\ last'.op = "malformed"
              /\ events' = events
              /\ sockets' = sockets
              /\ socketRef' = socketRef
              /\ session' = session
              /\ sessionIdRef' = sessionIdRef
         ELSE /\ last'.op = "message"
              /\ Len(events') > 0
              /\ events'[1] = SessionEvent(last'.sid, nMsgs')]_vars

\* C12 witness: a well-formed message has been put at position 0 after a
\* malformed one was discarded
C12_Witness ==
  /\ last.op = "message"
  /\ nBad > 0
  /\ ~Invalid(lastData)
  /\ events[1].seq = nMsgs

\* C13: the pipeline never holds more than one acquired and unreleased
\* microphone stream.
C13_SingleMicrophone ==
  Cardinality({g \in DOMAIN graphs : graphs[g].mic}) <= 1

\* C14: after a startCapture that failed (microphone denied, or the audio
\* graph could not be built after the microphone was granted) no microphone
\* stream and no processor is left running and isCapturing is false.
C14_FailedStartReleasesAll ==
  last.op \in {"captureDenied", "captureSetupFailed"} =>
    /\ \A g \in DOMAIN graphs : ~Running(g)
    /\ ~isCapturing

\* graph g is capturing (its processor is connected) although the session it
\* was started for is stored as inactive
RunningInactive(g) ==
  /\ g \in DOMAIN graphs
  /\ graphs[g].proc
  /\ session.session_id = graphs[g].sess.session_id
  /\ ~session.active

\* C15: whenever a capture is running and the session it is bound to has
\* become inactive, the capture is eventually stopped without a user action:
\* its processor and microphone are released, so that it submits no further
\* frame.
C15_ForceStop ==
  \A g \in 1..MaxGraphs :
    RunningInactive(g) ~> ~(g \in DOMAIN graphs /\ Running(g))

\* C16: startCapture requests the microphone only while the stored session
\* is active.
C16_StartNeedsActiveSession ==
  last.op = "startCall" => session.active

\* C17: a failed submission of a captured block is caught and leaves the
\* capture pipeline as it was (isCapturing, the refs, the graphs and their
\* microphones and processors), and the block callback of every running
\* graph goes on submitting one frame per block.
C17_BlockFailureContained ==
  [][/\ last'.op = "blockFailed" =>
          /\ isCapturing' = isCapturing
          /\ captureRefs' = captureRefs
          /\ graphs' = graphs
          /\ acquiring' = acquiring
          /\ Len(inflight') = Len(inflight) - 1
     /\ last'.op = "blockSubmit" =>
          /\ Len(inflight') = Len(inflight) + 1
          /\ \E g \in DOMAIN graphs :
               inflight'[Len(inflight')] =
                 AudioFrame(last'.sid, CopyBlock(graphs[g].input), CaptureRate,
                            "capture")]_vars

\* C17 witness: a block submission has failed while another one is in flight
\* and the capture is still running
C17_Witness ==
  /\ last.op = "blockFailed"
  /\ isCapturing
  /\ captureRefs[inst] # 0
  /\ graphs[captureRefs[inst]].proc
  /\ graphs[captureRefs[inst]].mic
  /\ Len(inflight) > 0

\* C20: a pushAudioFrame call made while the stored session is active issues
\* exactly one remote submission, for a frame with the session's id, one
\* channel and duration_ms = buffer.length / sampleRate * 1000 (185.75 to
\* 185.76 ms for 4096 samples at 22050 Hz), and the call returns the frame
\* the service acknowledged.
C20_FrameSubmitted ==
  [][/\ (last'.op = "pushSubmit" /\ session.active) =>
          /\ Len(inflight') = Len(inflight) + 1
          /\ SubSeq(inflight', 1, Len(inflight)) = inflight
          /\ LET frame == inflight'[Len(inflight')]
             IN /\ frame.session_id = session.session_id
                /\ frame.channels = 1
                /\ frame.duration * frame.sample_rate <= frame.samples * 100000
                /\ frame.samples * 100000 < (frame.duration + 1) * frame.sample_rate
                /\ (frame.samples = 4096 /\ frame.sample_rate = 22050)
                     => frame.duration = 18575
                /\ \E in \in FrameInputs :
                     in[1].length = frame.samples /\ in[2] = frame.sample_rate
     /\ last'.op = "pushAck" =>
          /\ lastFrame'.acked
          /\ \E k \in DOMAIN inflight :
               /\ lastFrame' = Acknowledged(inflight[k])
               /\ inflight' = Remove(inflight, k)]_vars

\* C20 witness: a call made for an active session has returned the
\* acknowledged frame of a 4096-sample block at 22050 Hz
C20_Witness ==
  /\ last.op = "pushAck"
  /\ session = [session_id |-> last.sid, active |-> TRUE]
  /\ lastFrame.acked
  /\ lastFrame.samples = BlockSize
  /\ lastFrame.sample_rate = CaptureRate
  /\ lastFrame.session_id = last.sid

\* C18: whenever a heartbeat interval passes on an open event stream socket
\* of the active session, the client sends a ping on it.
C18_Heartbeat ==
  [][(/\ last'.op = "interval"
      /\ session = [session_id |-> last'.sid, active |-> TRUE])
      => sent' = sent + 1]_vars

\* C19: when disconnectStream has run (closeSession resolved, or
\* SessionProvider was unmounted) no reconnect timer is pending and the feed
\* is empty, and from then on no reconnect timer opens a socket unless
\* ensureSession has been called again.
C19_DisconnectTerminal ==
  /\ last.op \in {"closeOk", "providerUnmount"} =>
       /\ reconnectTimer = 0
       /\ \A t \in DOMAIN timers : timers[t].st # "pending"
       /\ events = <<>>
  /\ last.op = "timerFire" => ~torn

\* C22: while its owner is mounted the telemetry poller polls at every
\* interval whatever the session state (a request is under way after each
\* interval, a new one unless one was already under way); a successful poll
\* replaces the whole snapshot; a failed poll keeps the snapshot, touches
\* nothing of the session and does not stop the polling.
C22_TelemetryPolling ==
  [][/\ polling => ENABLED TelemetryInterval
     /\ last'.op = "telemetryInterval" =>
          /\ telemetryFetch' = "fetching"
          /\ telemetryFetch # "fetching" => nPolls' = nPolls + 1
     /\ last'.op = "telemetryOk" =>
          /\ telemetryData' = lastSnapshot'
          /\ telemetryStatus' = "success"
     /\ last'.op = "telemetryFail" =>
          /\ telemetryData' = telemetryData
          /\ polling' = polling
          /\ notPollVars' = notPollVars
          /\ telemetryFetch' \in {"retrying", "idle"}]_vars

\* C22 witness: an interval has started a new poll after a poll and its retry
\* failed, the earlier snapshot is still there and the session is closed
C22_Witness ==
  /\ last.op = "telemetryInterval"
  /\ telemetryStatus = "error"
  /\ telemetryFetch = "fetching"
  /\ failureCount = 0
  /\ telemetryData.defined
  /\ telemetryData = lastSnapshot
  /\ session # Null
  /\ ~session.active

\* the port a URL connects to
EffectivePort(scheme, port) == IF port = 0 THEN DefaultPort(scheme) ELSE port

\* scheme, host, port and query of the URL returned by the latest call are
\* as C23 says
C23_Origin ==
  /\ resolved.url.protocol = (IF resolved.base.scheme = "http" THEN "ws" ELSE "wss")
  /\ resolved.url.hostname = resolved.base.host
  /\ EffectivePort(resolved.url.protocol, resolved.url.port)
       = EffectivePort(resolved.base.scheme, resolved.base.port)
  /\ resolved.url.search = ""

\* C23 as stated: for every http or https base address and every path the
\* returned URL has scheme ws for http and wss for https, the host and port
\* of the base address, the given path with a leading slash added when it is
\* missing, and no query string.
C23_WebSocketUrl ==
  resolved.called =>
    /\ C23_Origin
    /\ resolved.url.pathname = WithSlash(resolved.path)

\* path has no "." and no ".." segment
DotFree(path) ==
  \A k \in DOMAIN SplitPath(path) : SplitPath(path)[k] \notin {<<".">>, <<".", ".">>}

\* C23 amended: scheme, host, port and query as stated for every path; the
\* path of the URL is the given path with a leading slash added when it is
\* missing for every path without "." and ".." segments, and never has such
\* a segment.
C23_WebSocketUrlAmended ==
  resolved.called =>
    /\ C23_Origin
    /\ DotFree(resolved.path) => resolved.url.pathname = WithSlash(resolved.path)
    /\ DotFree(resolved.url.pathname)
    /\ resolved.url.pathname[1] = "/"

\* C23 witness: an https address with a port, a path and a query, and a path
\* argument without leading slash
C23_Witness ==
  /\ resolved.called
  /\ resolved.base = [scheme |-> "https", host |-> "api.example.com", port |-> 8000,
                      path |-> <<"/", "v">>, query |-> "v=1"]
  /\ resolved.path = <<"a", "/", "a">>
  /\ resolved.url = [protocol |-> "wss", hostname |-> "api.example.com", port |-> 8000,
                     pathname |-> <<"/", "a", "/", "a">>, search |-> ""]

\* C24: a closeSession call made while no session is active (none was ever
\* created, or the stored session is already closed) issues no remote close
\* call and leaves the stored state, the stream and the feed as they were.
C24_CloseNoopWhenInactive ==
  [][(last'.op \in {"closeNoop", "closeCall"} /\ ~session.active) =>
       /\ last'.op = "closeNoop"
       /\ closing' = closing
       /\ session' = session
       /\ isLoading' = isLoading
       /\ sessionIdRef' = sessionIdRef
       /\ streamVars' = streamVars]_vars

\* some socket for session s is open
StreamConnected(s) ==
  \E i \in DOMAIN sockets : sockets[i].sid = s /\ sockets[i].readyState = "OPEN"

\* C25: ensureSession on an existing active session returns the existing
\* state without a remote call, opens a stream for its id when none is
\* connected, and opens nothing when a stream for it is already connected.
C25_EnsureExisting ==
  [][(last'.op = "ensureExisting" /\ session.active) =>
       /\ last'.sid = session.session_id
       /\ session' = session
       /\ creating' = creating
       /\ created' = created
       /\ IF StreamConnected(session.session_id)
            THEN sockets' = sockets
            ELSE /\ sockets' = Append(sockets, [sid |-> session.session_id,
                                                readyState |-> "CONNECTING"])
                 /\ socketRef' = Len(sockets')]_vars

\* C26: after the socket of ConsciousnessVisualizer has closed or failed,
\* and while the component stays mounted with the same sessionId, the status
\* eventually returns to connected (on a new socket).
C26_VisualizerReconnects ==
  \A sid \in SessionIds :
    (visualizer /\ vizSessionId = sid /\ connectionStatus = "disconnected")
      ~> (~visualizer \/ vizSessionId # sid \/ connectionStatus = "connected")

\* C27: whenever isListening is true a speech recognition is running, or has
\* just ended and is restarted by its onend handler.
C27_ContinuousListening ==
  (chat /\ isListening) =>
    \E r \in DOMAIN recognitions :
      \/ recognitions[r].st = "running"
      \/ recognitions[r].st = "ending" /\ recognitions[r].listening

\* C28: the current session id and the stored session are written only by
\* ensureSession and closeSession: every other step (stream message, close
\* and error handlers, reconnect timer, frame submission, capture pipeline,
\* telemetry poller) leaves them as they were.
C28_SingleWriter ==
  [][(sessionIdRef' # sessionIdRef \/ session' # session) =>
       last'.op \in {"ensureExisting", "ensureOk", "closeOk"}]_vars

\* C28 witness: a reconnect timer has fired for the current session while a
\* capture is running and a telemetry snapshot is held
C28_Witness ==
  /\ last.op = "timerFire"
  /\ sessionIdRef = last.sid
  /\ session = [session_id |-> last.sid, active |-> TRUE]
  /\ \E g \in DOMAIN graphs : graphs[g].proc
  /\ telemetryData.defined
  /\ nMsgs > 0

\* C29: every stopCapture disconnects the processor, disconnects the source,
\* closes the audio context and stops the media tracks, in that order, and
\* afterwards the four handles are null and isCapturing is false; a
\* stopCapture with nothing running makes no release call and changes nothing.
C29_StopCaptureOrder ==
  [][/\ last'.op \in {"stopCapture", "forceStop"} =>
          /\ captureRefs'[inst] = 0
          /\ ~isCapturing'
          /\ IF captureRefs[inst] # 0
               THEN /\ released' = <<"processor.disconnect", "source.disconnect",
                                     "context.close", "track.stop">>
                    /\ ~graphs'[captureRefs[inst]].proc
                    /\ ~graphs'[captureRefs[inst]].mic
               ELSE /\ released' = <<>>
                    /\ graphs' = graphs
                    /\ captureRefs' = captureRefs
                    /\ isCapturing' = isCapturing
     /\ last'.op \in {"captureDenied", "captureSetupFailed"} =>
          released' \in {<<>>, <<"processor.disconnect", "source.disconnect",
                                "context.close", "track.stop">>}]_vars

\* C29 witness: a running capture has just been stopped through stopCapture
C29_Witness ==
  /\ last.op = "stopCapture"
  /\ Len(released) = 4
  /\ \E g \in DOMAIN graphs : ~Running(g)
  /\ captureRefs[inst] = 0
  /\ ~isCapturing

\* C30: at most one event stream socket is connecting or open at any time,
\* and the socket reference of the controller points to it.
C30_SingleLiveSocket ==
  /\ Cardinality({i \in DOMAIN sockets : Live(sockets[i])}) <= 1
  /\ \A i \in DOMAIN sockets : Live(sockets[i]) => socketRef = i

\* C31: when ensureSession calls overlap, at most one remote session is
\* created and every session the service has created is the one the client
\* tracks.
C31_OverlappingEnsure ==
  /\ created <= 1
  /\ \A s \in 1..created : session.session_id = s

\* C32: when the component that owns a running capture is unmounted, the
\* capture is stopped: no microphone stream and no processor is left running,
\* the refs of the hook instance are released, and no block is submitted
\* while the component is unmounted.
C32_UnmountStopsCapture ==
  /\ last.op = "unmount" =>
       /\ \A g \in DOMAIN graphs : ~Running(g)
       /\ captureRefs[inst] = 0
  /\ last.op = "blockSubmit" => mounted

\* C33: every event in the feed carries the id of the session the stream is
\* currently opened for, and that session is active: no event of another
\* session, and none delivered by a socket of a closed or replaced session,
\* is in the feed.
C33_FeedScoped ==
  \A k \in 1..Len(events) :
    /\ events[k].session_id = sessionIdRef
    /\ session = [session_id |-> sessionIdRef, active |-> TRUE]

\* C34: frame submissions are fire-and-forget: the block callback of a
\* connected processor can run whatever is in flight and adds its frame
\* behind the submissions still awaiting their response, every submission in
\* flight can be answered next whatever its position, and an acknowledgment
\* changes nothing but the set of submissions in flight.
C34_FireAndForget ==
  [][/\ \A g \in DOMAIN graphs : graphs[g].proc => ENABLED AudioProcess(g)
     /\ \A k \in DOMAIN inflight : ENABLED SubmitAudioOk(k)
     /\ last'.op = "blockSubmit" =>
          /\ Len(inflight') = Len(inflight) + 1
          /\ SubSeq(inflight', 1, Len(inflight)) = inflight
          /\ capVars' = capVars
     /\ last'.op = "blockAcked" =>
          /\ \E k \in DOMAIN inflight : inflight' = Remove(inflight, k)
          /\ capVars' = capVars
          /\ sessVars' = sessVars
          /\ lastFrame' = lastFrame]_vars

\* C34 witness: a block was acknowledged while another submission of the
\* running capture was still in flight
C34_Witness ==
  /\ last.op = "blockAcked"
  /\ Len(inflight) >= 1
  /\ inflight[1].by = "capture"
  /\ isCapturing
  /\ captureRefs[inst] # 0
  /\ graphs[captureRefs[inst]].proc

\* C35: the waveform of every submitted frame encodes exactly the
\* buffer.length samples of the array pushAudioFrame was given, 4 bytes per
\* sample, also when the array is a view onto a larger buffer.
C35_WaveformLength ==
  \A k \in DOMAIN inflight : inflight[k].waveform_base64 = Btoa(4 * inflight[k].samples)

\* C36: the frame a block callback submits holds the samples the capture
\* buffer held when the callback ran, and a later write of the audio
\* subsystem into the capture buffer leaves the submissions in flight as they
\* were.
C36_BlockCopied ==
  [][/\ last'.op = "blockSubmit" =>
          \E g \in DOMAIN graphs :
            /\ graphs[g].proc
            /\ graphs[g].sess.session_id = last'.sid
            /\ inflight'[Len(inflight')].data = graphs[g].input.data
            /\ inflight'[Len(inflight')].samples = graphs[g].input.length
     /\ last'.op = "render" => inflight' = inflight]_vars

\* C36 witness: the audio subsystem has overwritten the capture buffer while
\* a frame with the samples of the block before is in flight
C36_Witness ==
  /\ last.op = "render"
  /\ Len(inflight) >= 1
  /\ inflight[1].by = "capture"
  /\ inflight[1].data # 0
  /\ \E g \in DOMAIN graphs :
       graphs[g].proc /\ graphs[g].input.data # inflight[1].data

\* C37: every api operation settles by the response alone: a non-2xx
\* response rejects with the body text, or with 'Request failed with status
\* N' when the body is empty; a 204 resolves to undefined; any other 2xx
\* resolves to the parsed JSON body; getLatestMemory resolves to null on 404.
C37_UniformOutcome ==
  settled.called =>
    LET response == settled.response
    IN settled.outcome =
         IF settled.op = "getLatestMemory" /\ response.status = 404
           THEN [promise |-> "resolved", value |-> "null"]
           ELSE IF response.status \notin 200..299
             THEN [promise |-> "rejected",
                   value |-> IF response.body = ""
                               THEN <<"Request failed with status", response.status>>
                               ELSE <<"body", response.body>>]
             ELSE IF response.status = 204
               THEN [promise |-> "resolved", value |-> "undefined"]
               ELSE [promise |-> "resolved", value |-> "parsed"]

\* C37, amended: as C37, but a 2xx response other than 204 resolves to the
\* parsed body only when the body is JSON; with an empty body or one that is
\* not JSON the call rejects with the SyntaxError of response.json().
C37_UniformOutcomeAmended ==
  settled.called =>
    LET response == settled.response
    IN settled.outcome =
         IF settled.op = "getLatestMemory" /\ response.status = 404
           THEN [promise |-> "resolved", value |-> "null"]
           ELSE IF response.status \notin 200..299
             THEN [promise |-> "rejected",
                   value |-> IF response.body = ""
                               THEN <<"Request failed with status", response.status>>
                               ELSE <<"body", response.body>>]
             ELSE IF response.status = 204
               THEN [promise |-> "resolved", value |-> "undefined"]
               ELSE IF response.body = "json"
                 THEN [promise |-> "resolved", value |-> "parsed"]
                 ELSE [promise |-> "rejected", value |-> "SyntaxError"]

\* C37 witness: storeMemory has rejected with the body text of a 404
\* response, which getLatestMemory alone turns into null
C37_Witness ==
  /\ settled.called
  /\ settled.op = "storeMemory"
  /\ settled.response = [status |-> 404, body |-> "text"]
  /\ settled.outcome = [promise |-> "rejected", value |-> <<"body", "text">>]

TypeOK ==
  /\ session \in SessionState \cup {Null}
  /\ isLoading \in BOOLEAN
  /\ socketRef \in 0..Len(sockets)
  /\ reconnectTimer \in 0..Len(timers)
  /\ sessionIdRef \in 0..MaxSessions
  /\ creating \in 0..MaxSessions
  /\ created \in 0..MaxSessions
  /\ closedIds \subseteq SessionIds
  /\ inst \in 0..MaxMounts
====
